---- MODULE Spec2Model ----
(***************************************************************************)
(* GrimRepo audit scoring engine: the structure analyzer, the community   *)
(* standards analyzer, the RSR compliance gate and the audit aggregator.  *)
(*                                                                         *)
(* A string is a sequence of one-character strings, so that lower-casing,  *)
(* slash stripping, backslash replacement and prefix tests are computed    *)
(* character by character as the TypeScript does.                          *)
(***************************************************************************)
EXTENDS Integers, Sequences, FiniteSets, TLC

VARIABLES existingPaths, existingFiles, structure, community, compliant, audit, recommendations, report, parsed, console, scores, overall, state, page

vars == <<existingPaths, existingFiles, structure, community, compliant, audit, recommendations, report, parsed, console, scores, overall, state, page>>

(***************************************************************************)
(* Bounds of the model.                                                    *)
(***************************************************************************)
\* Largest number of trailing slashes a caller writes after a path.
MaxTrailingSlashes == 2

(***************************************************************************)
(* Characters and strings.                                                 *)
(***************************************************************************)
UpperLetters ==
  <<"A","B","C","D","E","F","G","H","I","J","K","L","M",
    "N","O","P","Q","R","S","T","U","V","W","X","Y","Z">>

LowerLetters ==
  <<"a","b","c","d","e","f","g","h","i","j","k","l","m",
    "n","o","p","q","r","s","t","u","v","w","x","y","z">>

LetterIndex(letters, c) == CHOOSE i \in DOMAIN letters : letters[i] = c

\* The case mappings of the ASCII letters, as tables.
LowerOf ==
  [c \in {UpperLetters[i] : i \in DOMAIN UpperLetters} |->
     LowerLetters[LetterIndex(UpperLetters, c)]]

UpperOf ==
  [c \in {LowerLetters[i] : i \in DOMAIN LowerLetters} |->
     UpperLetters[LetterIndex(LowerLetters, c)]]

\* String.prototype.toLowerCase, one character.
toLowerChar(c) == IF c \in DOMAIN LowerOf THEN LowerOf[c] ELSE c

\* String.prototype.toUpperCase, one character (used to write callers' inputs).
toUpperChar(c) == IF c \in DOMAIN UpperOf THEN UpperOf[c] ELSE c

toLowerCase(s) == [i \in 1..Len(s) |-> toLowerChar(s[i])]

toUpperCase(s) == [i \in 1..Len(s) |-> toUpperChar(s[i])]

\* String.prototype.startsWith
startsWith(s, prefix) ==
  /\ Len(s) >= Len(prefix)
  /\ \A i \in 1..Len(prefix) : s[i] = prefix[i]

\* s.replace(/\/+$/, ''): drop every trailing slash.
RECURSIVE StripTrailingSlashes(_)
StripTrailingSlashes(s) ==
  IF Len(s) > 0 /\ s[Len(s)] = "/"
    THEN StripTrailingSlashes(SubSeq(s, 1, Len(s) - 1))
    ELSE s

\* s.replace(/\\/g, '/'): every backslash becomes a forward slash.
ReplaceBackslashes(s) == [i \in 1..Len(s) |-> IF s[i] = "\\" THEN "/" ELSE s[i]]

RECURSIVE SumSeq(_)
SumSeq(xs) == IF xs = <<>> THEN 0 ELSE Head(xs) + SumSeq(Tail(xs))

MapPath(items) == [i \in 1..Len(items) |-> items[i].path]

\* Math.round(n / d) for n >= 0, d > 0: the nearest integer, a half rounds up.
\* Math.floor in the place of Math.round.
MathRound_Floor(n, d) == n \div d

MathRound(n, d) == (2 * n + d) \div (2 * d)

(***************************************************************************)
(* String literals of the source.                                          *)
(***************************************************************************)
LICENSE == <<"L","I","C","E","N","S","E">>

LICENSE_TXT == <<"L","I","C","E","N","S","E",".","t","x","t">>

LICENSE_MD == <<"L","I","C","E","N","S","E",".","m","d">>

README_MD == <<"R","E","A","D","M","E",".","m","d">>

CONTRIBUTING_MD == <<"C","O","N","T","R","I","B","U","T","I","N","G",".","m","d">>

CODE_OF_CONDUCT_MD ==
  <<"C","O","D","E","_","O","F","_","C","O","N","D","U","C","T",".","m","d">>

SECURITY_MD == <<"S","E","C","U","R","I","T","Y",".","m","d">>

CHANGELOG_MD == <<"C","H","A","N","G","E","L","O","G",".","m","d">>

MAINTAINERS_MD == <<"M","A","I","N","T","A","I","N","E","R","S",".","m","d">>

WELL_KNOWN_SECURITY_TXT ==
  <<".","w","e","l","l","-","k","n","o","w","n","/",
    "s","e","c","u","r","i","t","y",".","t","x","t">>

WELL_KNOWN_AI_TXT ==
  <<".","w","e","l","l","-","k","n","o","w","n","/","a","i",".","t","x","t">>

license_lc == <<"l","i","c","e","n","s","e">>

license_txt_lc == <<"l","i","c","e","n","s","e",".","t","x","t">>

license_md_lc == <<"l","i","c","e","n","s","e",".","m","d">>

readme_md_lc == <<"r","e","a","d","m","e",".","m","d">>

security_md_lc == <<"s","e","c","u","r","i","t","y",".","m","d">>

contributing_md_lc == <<"c","o","n","t","r","i","b","u","t","i","n","g",".","m","d">>

code_of_conduct_md_lc ==
  <<"c","o","d","e","_","o","f","_","c","o","n","d","u","c","t",".","m","d">>

SRC_DIR == <<"s","r","c","/">>

TESTS_DIR == <<"t","e","s","t","s","/">>

DOCS_DIR == <<"d","o","c","s","/">>

EXAMPLES_DIR == <<"e","x","a","m","p","l","e","s","/">>

GITLAB_DIR == <<".","g","i","t","l","a","b","/">>

GITHUB_DIR == <<".","g","i","t","h","u","b","/">>

SCRIPTS_DIR == <<"s","c","r","i","p","t","s","/">>

WELL_KNOWN_DIR == <<".","w","e","l","l","-","k","n","o","w","n","/">>

WELL_KNOWN_HUMANS_TXT == <<".","w","e","l","l","-","k","n","o","w","n","/","h","u","m","a","n","s",".","t","x","t">>

LIB_DIR == <<"l","i","b","/">>

(***************************************************************************)
(* Registries.                                                             *)
(***************************************************************************)
STANDARD_FILES ==
  << [path |-> LICENSE,                 purpose |-> "License terms",               priority |-> "required"],
     [path |-> LICENSE_TXT,             purpose |-> "License terms (alternative)", priority |-> "required"],
     [path |-> README_MD,               purpose |-> "Project overview",            priority |-> "required"],
     [path |-> CONTRIBUTING_MD,         purpose |-> "Contribution guidelines",     priority |-> "recommended"],
     [path |-> CODE_OF_CONDUCT_MD,      purpose |-> "Community conduct standards", priority |-> "recommended"],
     [path |-> SECURITY_MD,             purpose |-> "Security policies",           priority |-> "recommended"],
     [path |-> CHANGELOG_MD,            purpose |-> "Version history",             priority |-> "recommended"],
     [path |-> MAINTAINERS_MD,          purpose |-> "Project maintainers",         priority |-> "optional"],
     [path |-> WELL_KNOWN_SECURITY_TXT, purpose |-> "RFC 9116 security contact",   priority |-> "recommended"] >>

\* The registry with scripts/ tagged optional: 2 required, 3 recommended and
\* 3 optional rows.
STANDARD_DIRECTORIES_ScriptsOptional ==
  << [path |-> SRC_DIR,        purpose |-> "Source code",                  priority |-> "required"],
     [path |-> TESTS_DIR,      purpose |-> "Test files",                   priority |-> "required"],
     [path |-> DOCS_DIR,       purpose |-> "Documentation",                priority |-> "recommended"],
     [path |-> EXAMPLES_DIR,   purpose |-> "Example code",                 priority |-> "recommended"],
     [path |-> GITLAB_DIR,     purpose |-> "GitLab CI/CD config",          priority |-> "optional"],
     [path |-> GITHUB_DIR,     purpose |-> "GitHub-specific config",       priority |-> "optional"],
     [path |-> SCRIPTS_DIR,    purpose |-> "Build and automation scripts", priority |-> "optional"],
     [path |-> WELL_KNOWN_DIR, purpose |-> "RFC-compliant metadata",       priority |-> "recommended"] >>

STANDARD_DIRECTORIES ==
  << [path |-> SRC_DIR,        purpose |-> "Source code",                  priority |-> "required"],
     [path |-> TESTS_DIR,      purpose |-> "Test files",                   priority |-> "required"],
     [path |-> DOCS_DIR,       purpose |-> "Documentation",                priority |-> "recommended"],
     [path |-> EXAMPLES_DIR,   purpose |-> "Example code",                 priority |-> "recommended"],
     [path |-> GITLAB_DIR,     purpose |-> "GitLab CI/CD config",          priority |-> "optional"],
     [path |-> GITHUB_DIR,     purpose |-> "GitHub-specific config",       priority |-> "optional"],
     [path |-> SCRIPTS_DIR,    purpose |-> "Build and automation scripts", priority |-> "recommended"],
     [path |-> WELL_KNOWN_DIR, purpose |-> "RFC-compliant metadata",       priority |-> "recommended"] >>

\* The weight that falls through to the lowest value for every priority.
getPriorityWeight_Flat(priority) == 1

getPriorityWeight(priority) ==
  CASE priority = "required"    -> 10
    [] priority = "recommended" -> 5
    [] priority = "optional"    -> 1

(***************************************************************************)
(* Structure analyzer.                                                     *)
(***************************************************************************)
\* normalizePath with the regular expression /\/$/ in place of /\/+$/: only one
\* trailing slash is dropped.
normalizePath_OneSlash(path) ==
  LET lowered == toLowerCase(path)
  IN  IF Len(lowered) > 0 /\ lowered[Len(lowered)] = "/"
        THEN SubSeq(lowered, 1, Len(lowered) - 1)
        ELSE lowered

\* normalizePath without the toLowerCase call.
normalizePath_CaseSensitive(path) == StripTrailingSlashes(path)

normalizePath(path) == StripTrailingSlashes(toLowerCase(path))

\* calculateStructureScore whose first loop walks the missing list, not the
\* registry.
calculateStructureScore_MaxOverMissing(missing, present) ==
  LET isPresent(dir) ==
        \E i \in 1..Len(present) : normalizePath(present[i]) = normalizePath(dir.path)
      maxPoints ==
        SumSeq([i \in 1..Len(missing) |-> getPriorityWeight(missing[i].priority)])
      earnedPoints ==
        SumSeq([i \in 1..Len(STANDARD_DIRECTORIES) |->
                  IF isPresent(STANDARD_DIRECTORIES[i])
                    THEN getPriorityWeight(STANDARD_DIRECTORIES[i].priority)
                    ELSE 0])
  IN  IF maxPoints > 0 THEN MathRound(earnedPoints * 100, maxPoints) ELSE 0

calculateStructureScore(missing, present) ==
  LET isPresent(dir) ==
        \E i \in 1..Len(present) : normalizePath(present[i]) = normalizePath(dir.path)
      maxPoints ==
        SumSeq([i \in 1..Len(STANDARD_DIRECTORIES) |->
                  getPriorityWeight(STANDARD_DIRECTORIES[i].priority)])
      earnedPoints ==
        SumSeq([i \in 1..Len(STANDARD_DIRECTORIES) |->
                  IF isPresent(STANDARD_DIRECTORIES[i])
                    THEN getPriorityWeight(STANDARD_DIRECTORIES[i].priority)
                    ELSE 0])
  IN  IF maxPoints > 0 THEN MathRound(earnedPoints * 100, maxPoints) ELSE 0

\* analyzeStructure that pushes the caller's matching strings, not dir.path.
analyzeStructure_PushInput(paths) ==
  LET pathSet == {normalizePath(paths[i]) : i \in 1..Len(paths)}
      found(dir) == normalizePath(dir.path) \in pathSet
      missing == SelectSeq(STANDARD_DIRECTORIES, LAMBDA dir : ~found(dir))
      present ==
        SelectSeq(paths, LAMBDA p :
          \E i \in 1..Len(STANDARD_DIRECTORIES) :
            normalizePath(STANDARD_DIRECTORIES[i].path) = normalizePath(p))
  IN  [missingDirs |-> missing,
       presentDirs |-> present,
       score       |-> calculateStructureScore(missing, present)]

\* analyzeStructure that walks the caller's list and pushes the registry path
\* of every match, in the caller's order and once per occurrence.
analyzeStructure_InputOrder(paths) ==
  LET pathSet == {normalizePath(paths[i]) : i \in 1..Len(paths)}
      found(dir) == normalizePath(dir.path) \in pathSet
      missing == SelectSeq(STANDARD_DIRECTORIES, LAMBDA dir : ~found(dir))
      rows == 1..Len(STANDARD_DIRECTORIES)
      matchesRow(p, r) == normalizePath(STANDARD_DIRECTORIES[r].path) = normalizePath(p)
      matching == SelectSeq(paths, LAMBDA p : \E r \in rows : matchesRow(p, r))
      present ==
        [i \in 1..Len(matching) |->
           STANDARD_DIRECTORIES[CHOOSE r \in rows : matchesRow(matching[i], r)].path]
  IN  [missingDirs |-> missing,
       presentDirs |-> present,
       score       |-> calculateStructureScore(missing, present)]

analyzeStructure(paths) ==
  LET pathSet == {normalizePath(paths[i]) : i \in 1..Len(paths)}
      found(dir) == normalizePath(dir.path) \in pathSet
      missing == SelectSeq(STANDARD_DIRECTORIES, LAMBDA dir : ~found(dir))
      present == MapPath(SelectSeq(STANDARD_DIRECTORIES, found))
  IN  [missingDirs |-> missing,
       presentDirs |-> present,
       score       |-> calculateStructureScore(missing, present)]

(***************************************************************************)
(* Community standards analyzer.                                           *)
(***************************************************************************)
\* normalizePath in the place of normalizeFilePath: trailing slashes are
\* stripped and backslashes are kept.
normalizeFilePath_AsDirectory(path) == StripTrailingSlashes(toLowerCase(path))

normalizeFilePath(path) == ReplaceBackslashes(toLowerCase(path))

\* The first loop without the uniqueFiles test: every row adds its weight.
MaxPointsFrom_CountsEachRow(i, uniqueFiles, maxPoints) ==
  maxPoints
    + SumSeq([k \in 1..(Len(STANDARD_FILES) + 1 - i) |->
                getPriorityWeight(STANDARD_FILES[i + k - 1].priority)])

\* The first loop of calculateCommunityScore, from registry row i on.
RECURSIVE MaxPointsFrom(_, _, _)
MaxPointsFrom(i, uniqueFiles, maxPoints) ==
  IF i > Len(STANDARD_FILES)
    THEN maxPoints
    ELSE LET file == STANDARD_FILES[i]
         IN  IF startsWith(file.path, LICENSE)
               THEN IF LICENSE \notin uniqueFiles
                      THEN MaxPointsFrom(i + 1, uniqueFiles \cup {LICENSE},
                                         maxPoints + getPriorityWeight(file.priority))
                      ELSE MaxPointsFrom(i + 1, uniqueFiles, maxPoints)
               ELSE MaxPointsFrom(i + 1, uniqueFiles \cup {file.path},
                                  maxPoints + getPriorityWeight(file.priority))

\* What the second loop of calculateCommunityScore adds for one registry row.
EarnedFor(file, present) ==
  LET normalized == normalizeFilePath(file.path)
      isPresent == \E i \in 1..Len(present) : normalizeFilePath(present[i]) = normalized
      alreadyCounted ==
        \E i \in 1..Len(present) :
          /\ present[i] # file.path
          /\ startsWith(normalizeFilePath(present[i]), license_lc)
  IN  IF isPresent
        THEN IF startsWith(file.path, LICENSE)
               THEN IF ~alreadyCounted THEN getPriorityWeight(file.priority) ELSE 0
               ELSE getPriorityWeight(file.priority)
        ELSE 0

calculateCommunityScore(missing, present) ==
  LET maxPoints == MaxPointsFrom(1, {}, 0)
      earnedPoints ==
        SumSeq([i \in 1..Len(STANDARD_FILES) |-> EarnedFor(STANDARD_FILES[i], present)])
  IN  IF maxPoints > 0 THEN MathRound(earnedPoints * 100, maxPoints) ELSE 0

\* The loop pass that skips the LICENSE.txt row whether or not a license
\* alias was supplied.
FileRowOutcome_SkipTxtAlways(file, fileSet, hasLicense) ==
  IF file.path = LICENSE_TXT
    THEN "skip"
    ELSE IF file.path = LICENSE /\ license_txt_lc \in fileSet
           THEN "skip"
           ELSE IF normalizeFilePath(file.path) \in fileSet
                  THEN "present"
                  ELSE "missing"

\* One pass of the loop of analyzeCommunityStandards over a registry row:
\* "skip" (continue), "present" (pushed to present) or "missing".
FileRowOutcome(file, fileSet, hasLicense) ==
  IF file.path = LICENSE_TXT /\ hasLicense
    THEN "skip"
    ELSE IF file.path = LICENSE /\ license_txt_lc \in fileSet
           THEN "skip"
           ELSE IF normalizeFilePath(file.path) \in fileSet
                  THEN "present"
                  ELSE "missing"

analyzeCommunityStandards(files) ==
  LET fileSet == {normalizeFilePath(files[i]) : i \in 1..Len(files)}
      hasLicense ==
        \/ license_lc \in fileSet
        \/ license_txt_lc \in fileSet
        \/ license_md_lc \in fileSet
      outcome(file) == FileRowOutcome(file, fileSet, hasLicense)
      missing == SelectSeq(STANDARD_FILES, LAMBDA file : outcome(file) = "missing")
      present == MapPath(SelectSeq(STANDARD_FILES, LAMBDA file : outcome(file) = "present"))
  IN  [missingFiles |-> missing,
       presentFiles |-> present,
       score        |-> calculateCommunityScore(missing, present)]

checkRSRCompliance(standards) ==
  LET presentNormalized ==
        {normalizeFilePath(standards.presentFiles[i]) : i \in 1..Len(standards.presentFiles)}
      hasReadme == readme_md_lc \in presentNormalized
      hasLicense == license_lc \in presentNormalized \/ license_txt_lc \in presentNormalized
      hasSecurity == security_md_lc \in presentNormalized
      hasContributing == contributing_md_lc \in presentNormalized
      hasCodeOfConduct == code_of_conduct_md_lc \in presentNormalized
  IN  hasReadme /\ hasLicense /\ hasSecurity /\ hasContributing /\ hasCodeOfConduct

(***************************************************************************)
(* Recommendations.  A line is the text the code builds, character by      *)
(* character; an emoji is one element of the sequence.                     *)
(***************************************************************************)
WARNING_SIGN == "warning sign"

LIGHT_BULB == "light bulb"

CHECK_MARK == "check mark"

CROSS_MARK == "cross mark"

\* The purpose of a registry row as the characters a template literal inserts.
Spell(purpose) ==
  CASE purpose = "Source code" ->
         <<"S","o","u","r","c","e"," ","c","o","d","e">>
    [] purpose = "Test files" ->
         <<"T","e","s","t"," ","f","i","l","e","s">>
    [] purpose = "Documentation" ->
         <<"D","o","c","u","m","e","n","t","a","t","i","o","n">>
    [] purpose = "Example code" ->
         <<"E","x","a","m","p","l","e"," ","c","o","d","e">>
    [] purpose = "GitLab CI/CD config" ->
         <<"G","i","t","L","a","b"," ","C","I","/","C","D"," ","c","o","n","f","i","g">>
    [] purpose = "GitHub-specific config" ->
         <<"G","i","t","H","u","b","-","s","p","e","c","i","f","i","c"," ","c","o","n","f","i","g">>
    [] purpose = "Build and automation scripts" ->
         <<"B","u","i","l","d"," ","a","n","d"," ","a","u","t","o","m","a","t","i","o","n"," ","s","c","r","i","p","t","s">>
    [] purpose = "RFC-compliant metadata" ->
         <<"R","F","C","-","c","o","m","p","l","i","a","n","t"," ","m","e","t","a","d","a","t","a">>
    [] purpose = "License terms" ->
         <<"L","i","c","e","n","s","e"," ","t","e","r","m","s">>
    [] purpose = "License terms (alternative)" ->
         <<"L","i","c","e","n","s","e"," ","t","e","r","m","s"," ","(","a","l","t","e","r","n","a","t","i","v","e",")">>
    [] purpose = "Project overview" ->
         <<"P","r","o","j","e","c","t"," ","o","v","e","r","v","i","e","w">>
    [] purpose = "Contribution guidelines" ->
         <<"C","o","n","t","r","i","b","u","t","i","o","n"," ","g","u","i","d","e","l","i","n","e","s">>
    [] purpose = "Community conduct standards" ->
         <<"C","o","m","m","u","n","i","t","y"," ","c","o","n","d","u","c","t"," ","s","t","a","n","d","a","r","d","s">>
    [] purpose = "Security policies" ->
         <<"S","e","c","u","r","i","t","y"," ","p","o","l","i","c","i","e","s">>
    [] purpose = "Version history" ->
         <<"V","e","r","s","i","o","n"," ","h","i","s","t","o","r","y">>
    [] purpose = "Project maintainers" ->
         <<"P","r","o","j","e","c","t"," ","m","a","i","n","t","a","i","n","e","r","s">>
    [] purpose = "RFC 9116 security contact" ->
         <<"R","F","C"," ","9","1","1","6"," ","s","e","c","u","r","i","t","y"," ","c","o","n","t","a","c","t">>

REQUIRED_ADD == <<WARNING_SIGN>> \o <<" "," ","R","e","q","u","i","r","e","d",":"," ","A","d","d"," ">>

REQUIRED_CREATE == <<WARNING_SIGN>> \o <<" "," ","R","e","q","u","i","r","e","d",":"," ","C","r","e","a","t","e"," ">>

RECOMMENDED_ADD == <<LIGHT_BULB>> \o <<" ","R","e","c","o","m","m","e","n","d","e","d",":"," ","A","d","d"," ">>

FOR == <<" ","f","o","r"," ">>

COMMUNITY_SUMMARIES ==
  [complete |-> <<CHECK_MARK>> \o <<" ","C","o","m","m","u","n","i","t","y"," ","s","t","a","n","d","a","r","d","s"," ","a","r","e"," ","c","o","m","p","l","e","t","e","!">>,
   mostly   |-> <<CHECK_MARK>> \o <<" ","C","o","m","m","u","n","i","t","y"," ","s","t","a","n","d","a","r","d","s"," ","a","r","e"," ","m","o","s","t","l","y"," ","c","o","m","p","l","e","t","e">>,
   improve  |-> <<WARNING_SIGN>> \o <<" "," ","C","o","m","m","u","n","i","t","y"," ","s","t","a","n","d","a","r","d","s"," ","n","e","e","d"," ","i","m","p","r","o","v","e","m","e","n","t">>,
   none     |-> <<CROSS_MARK>> \o <<" ","C","o","m","m","u","n","i","t","y"," ","s","t","a","n","d","a","r","d","s"," ","a","r","e"," ","i","n","c","o","m","p","l","e","t","e">>]

STRUCTURE_SUMMARIES ==
  [complete |-> <<CHECK_MARK>> \o <<" ","S","t","r","u","c","t","u","r","e"," ","i","s"," ","c","o","m","p","l","e","t","e","!">>,
   mostly   |-> <<CHECK_MARK>> \o <<" ","S","t","r","u","c","t","u","r","e"," ","i","s"," ","m","o","s","t","l","y"," ","c","o","m","p","l","e","t","e">>,
   improve  |-> <<WARNING_SIGN>> \o <<" "," ","S","t","r","u","c","t","u","r","e"," ","n","e","e","d","s"," ","i","m","p","r","o","v","e","m","e","n","t">>,
   none     |-> <<CROSS_MARK>> \o <<" ","S","t","r","u","c","t","u","r","e"," ","i","s"," ","i","n","c","o","m","p","l","e","t","e">>]

\* The loop with a plain else in the place of the else-if: an optional item
\* gets a 'Recommended' line.
ItemLines_PlainElse(missing, required, recommended) ==
  [i \in 1..Len(missing) |->
     (IF missing[i].priority = "required" THEN required ELSE recommended)
       \o missing[i].path \o FOR \o Spell(missing[i].purpose)]

\* The loop over the missing items: one line per required or recommended item.
ItemLines(missing, required, recommended) ==
  LET wanted == SelectSeq(missing, LAMBDA m : m.priority \in {"required", "recommended"})
  IN  [i \in 1..Len(wanted) |->
         (IF wanted[i].priority = "required" THEN required ELSE recommended)
           \o wanted[i].path \o FOR \o Spell(wanted[i].purpose)]

\* The chain with > in the place of >= at the cut points 80 and 60.
SummaryLine_StrictCuts(summaries, score) ==
  IF score = 100 THEN summaries.complete
  ELSE IF score > 80 THEN summaries.mostly
  ELSE IF score > 60 THEN summaries.improve
  ELSE summaries.none

\* The if / else-if chain on the score.
SummaryLine(summaries, score) ==
  IF score = 100 THEN summaries.complete
  ELSE IF score >= 80 THEN summaries.mostly
  ELSE IF score >= 60 THEN summaries.improve
  ELSE summaries.none

getCommunityRecommendations(standards) ==
  Append(ItemLines(standards.missingFiles, REQUIRED_ADD, RECOMMENDED_ADD),
         SummaryLine(COMMUNITY_SUMMARIES, standards.score))

getStructureRecommendations(struct) ==
  Append(ItemLines(struct.missingDirs, REQUIRED_CREATE, RECOMMENDED_ADD),
         SummaryLine(STRUCTURE_SUMMARIES, struct.score))

(***************************************************************************)
(* Audit aggregator (src/audit.ts).                                        *)
(***************************************************************************)
\* calculateOverallScore with the even weights of the customisation example
\* (docs/architecture.md) in place of 0.4 and 0.6.
calculateOverallScore_EvenWeights(structureScore, communityScore) ==
  MathRound(5 * structureScore + 5 * communityScore, 10)

calculateOverallScore(structureScore, communityScore) ==
  MathRound(4 * structureScore + 6 * communityScore, 10)

\* determineLevel without the RSR gate: the score alone decides.
determineLevel_ScoreOnly(overallScore, rsrCompliant) ==
  IF overallScore >= 95 THEN "rhodium"
  ELSE IF overallScore >= 85 THEN "gold"
  ELSE IF overallScore >= 75 THEN "silver"
  ELSE IF overallScore >= 60 THEN "bronze"
  ELSE "raw"

determineLevel(overallScore, rsrCompliant) ==
  IF overallScore >= 95 /\ rsrCompliant THEN "rhodium"
  ELSE IF overallScore >= 85 /\ rsrCompliant THEN "gold"
  ELSE IF overallScore >= 75 /\ rsrCompliant THEN "silver"
  ELSE IF overallScore >= 60 /\ rsrCompliant THEN "bronze"
  ELSE "raw"

auditRepository(paths, files) ==
  LET struct == analyzeStructure(paths)
      standards == analyzeCommunityStandards(files)
      overallScore == calculateOverallScore(struct.score, standards.score)
  IN  [structure       |-> struct,
       community       |-> standards,
       overallScore    |-> overallScore,
       level           |-> determineLevel(overallScore, checkRSRCompliance(standards)),
       recommendations |-> getStructureRecommendations(struct)
                             \o getCommunityRecommendations(standards)]

(***************************************************************************)
(* JSON report (src/audit.ts).  A JavaScript value is tagged with its     *)
(* type; an object is the sequence of its members in insertion order.      *)
(***************************************************************************)
JSString(chars) == [t |-> "string", v |-> chars]

JSNumber(n) == [t |-> "number", v |-> n]

JSArray(items) == [t |-> "array", v |-> items]

JSObject(members) == [t |-> "object", v |-> members]

Member(key, value) == [key |-> key, value |-> value]

SyntaxError == [t |-> "error", v |-> <<>>]

KEY_STRUCTURE == <<"s","t","r","u","c","t","u","r","e">>

KEY_COMMUNITY == <<"c","o","m","m","u","n","i","t","y">>

KEY_OVERALL_SCORE == <<"o","v","e","r","a","l","l","S","c","o","r","e">>

KEY_LEVEL == <<"l","e","v","e","l">>

KEY_RECOMMENDATIONS == <<"r","e","c","o","m","m","e","n","d","a","t","i","o","n","s">>

KEY_MISSING_DIRS == <<"m","i","s","s","i","n","g","D","i","r","s">>

KEY_PRESENT_DIRS == <<"p","r","e","s","e","n","t","D","i","r","s">>

KEY_MISSING_FILES == <<"m","i","s","s","i","n","g","F","i","l","e","s">>

KEY_PRESENT_FILES == <<"p","r","e","s","e","n","t","F","i","l","e","s">>

KEY_SCORE == <<"s","c","o","r","e">>

KEY_PATH == <<"p","a","t","h">>

KEY_PURPOSE == <<"p","u","r","p","o","s","e">>

KEY_PRIORITY == <<"p","r","i","o","r","i","t","y">>

KEY_TEMPLATE == <<"t","e","m","p","l","a","t","e">>

\* The template of a directory row; the rows without one have no such member.
TEMPLATES ==
  << Member(SRC_DIR,
            <<"#"," ","S","o","u","r","c","e"," ","C","o","d","e","\n","\n","M","a","i","n"," ","a","p","p","l","i","c","a","t","i","o","n"," ","s","o","u","r","c","e"," ","c","o","d","e"," ","g","o","e","s"," ","h","e","r","e",".">>),
     Member(TESTS_DIR,
            <<"#"," ","T","e","s","t","s","\n","\n","T","e","s","t"," ","s","u","i","t","e","s"," ","a","n","d"," ","t","e","s","t"," ","u","t","i","l","i","t","i","e","s"," ","g","o"," ","h","e","r","e",".">>),
     Member(DOCS_DIR,
            <<"#"," ","D","o","c","u","m","e","n","t","a","t","i","o","n","\n","\n","D","e","t","a","i","l","e","d"," ","d","o","c","u","m","e","n","t","a","t","i","o","n",","," ","g","u","i","d","e","s",","," ","a","n","d"," ","A","P","I"," ","r","e","f","e","r","e","n","c","e","s",".">>),
     Member(EXAMPLES_DIR,
            <<"#"," ","E","x","a","m","p","l","e","s","\n","\n","U","s","a","g","e"," ","e","x","a","m","p","l","e","s"," ","a","n","d"," ","s","a","m","p","l","e"," ","a","p","p","l","i","c","a","t","i","o","n","s",".">>) >>

\* A priority or a level as the characters of the string.
Word(name) ==
  CASE name = "required"    -> <<"r","e","q","u","i","r","e","d">>
    [] name = "recommended" -> <<"r","e","c","o","m","m","e","n","d","e","d">>
    [] name = "optional"    -> <<"o","p","t","i","o","n","a","l">>
    [] name = "raw"         -> <<"r","a","w">>
    [] name = "bronze"      -> <<"b","r","o","n","z","e">>
    [] name = "silver"      -> <<"s","i","l","v","e","r">>
    [] name = "gold"        -> <<"g","o","l","d">>
    [] name = "rhodium"     -> <<"r","h","o","d","i","u","m">>

\* A DirectoryCheck or FileCheck object.
CheckValue(row) ==
  LET own == SelectSeq(TEMPLATES, LAMBDA m : m.key = row.path)
  IN  JSObject(<< Member(KEY_PATH, JSString(row.path)),
                  Member(KEY_PURPOSE, JSString(Spell(row.purpose))),
                  Member(KEY_PRIORITY, JSString(Word(row.priority))) >>
               \o [i \in 1..Len(own) |-> Member(KEY_TEMPLATE, JSString(own[i].value))])

Strings(list) == JSArray([i \in 1..Len(list) |-> JSString(list[i])])

Checks(rows) == JSArray([i \in 1..Len(rows) |-> CheckValue(rows[i])])

\* The AuditResult object.
AuditValue(a) ==
  JSObject(<<
    Member(KEY_STRUCTURE, JSObject(<<
      Member(KEY_MISSING_DIRS, Checks(a.structure.missingDirs)),
      Member(KEY_PRESENT_DIRS, Strings(a.structure.presentDirs)),
      Member(KEY_SCORE, JSNumber(a.structure.score)) >>)),
    Member(KEY_COMMUNITY, JSObject(<<
      Member(KEY_MISSING_FILES, Checks(a.community.missingFiles)),
      Member(KEY_PRESENT_FILES, Strings(a.community.presentFiles)),
      Member(KEY_SCORE, JSNumber(a.community.score)) >>)),
    Member(KEY_OVERALL_SCORE, JSNumber(a.overallScore)),
    Member(KEY_LEVEL, JSString(Word(a.level))),
    Member(KEY_RECOMMENDATIONS, Strings(a.recommendations)) >>)

DIGITS == <<"0","1","2","3","4","5","6","7","8","9">>

RECURSIVE NumberToString(_)
NumberToString(n) ==
  IF n < 10 THEN <<DIGITS[n + 1]>>
  ELSE NumberToString(n \div 10) \o <<DIGITS[(n % 10) + 1]>>

\* QuoteChar that leaves a line feed as it is.
QuoteChar_RawNewline(c) ==
  IF c = "\"" THEN <<"\\", "\"">>
  ELSE IF c = "\\" THEN <<"\\", "\\">>
  ELSE <<c>>

\* One character of a string as JSON.stringify writes it.
QuoteChar(c) ==
  IF c = "\"" THEN <<"\\", "\"">>
  ELSE IF c = "\\" THEN <<"\\", "\\">>
  ELSE IF c = "\n" THEN <<"\\", "n">>
  ELSE <<c>>

RECURSIVE Concat(_)
Concat(pieces) ==
  IF pieces = <<>> THEN <<>> ELSE Head(pieces) \o Concat(Tail(pieces))

Quote(chars) ==
  <<"\"">> \o Concat([i \in 1..Len(chars) |-> QuoteChar(chars[i])]) \o <<"\"">>

\* The pieces with a comma between each two.
Join(pieces) ==
  Concat([i \in 1..Len(pieces) |-> IF i = 1 THEN pieces[i] ELSE <<",">> \o pieces[i]])

RECURSIVE JSONStringify(_)
JSONStringify(value) ==
  CASE value.t = "string" -> Quote(value.v)
    [] value.t = "number" -> NumberToString(value.v)
    [] value.t = "array"  ->
         <<"[">> \o Join([i \in 1..Len(value.v) |-> JSONStringify(value.v[i])]) \o <<"]">>
    [] value.t = "object" ->
         <<"{">>
           \o Join([i \in 1..Len(value.v) |->
                      Quote(value.v[i].key) \o <<":">> \o JSONStringify(value.v[i].value)])
           \o <<"}">>

\* JSON.parse: the value read from position i on, and the position after it.
At(text, i) == IF i <= Len(text) THEN text[i] ELSE "end of input"

Failed == [value |-> SyntaxError, next |-> 0]

DigitValue(c) == (CHOOSE d \in 1..Len(DIGITS) : DIGITS[d] = c) - 1

IsDigit(c) == \E d \in 1..Len(DIGITS) : DIGITS[d] = c

\* Within the string that starts at position i: the backslash at k opens an
\* escape, the character at k is the second of an escape.
RECURSIVE OpensEscape(_, _, _)
RECURSIVE IsEscaped(_, _, _)
OpensEscape(text, i, k) == text[k] = "\\" /\ ~IsEscaped(text, i, k)

IsEscaped(text, i, k) == k > i /\ OpensEscape(text, i, k - 1)

\* The string whose opening quote is just before position i.
ParseString(text, i, chars) ==
  LET closes(j) == text[j] = "\"" /\ ~IsEscaped(text, i, j)
      end == CHOOSE j \in i..Len(text) : closes(j) /\ \A k \in i..(j - 1) : ~closes(k)
      inside == [m \in 1..(end - i) |-> i + m - 1]
      legal(k) ==
        IF IsEscaped(text, i, k) THEN text[k] \in {"\"", "\\", "/", "n"}
        ELSE text[k] # "\n"
      kept == SelectSeq(inside, LAMBDA k : ~OpensEscape(text, i, k))
      read(k) == IF IsEscaped(text, i, k) /\ text[k] = "n" THEN "\n" ELSE text[k]
  IN  IF ~\E j \in i..Len(text) : closes(j) THEN Failed
      ELSE IF \E k \in i..(end - 1) : ~legal(k) THEN Failed
      ELSE [value |-> JSString(chars \o [m \in 1..Len(kept) |-> read(kept[m])]),
            next |-> end + 1]

RECURSIVE ParseNumber(_, _, _)
ParseNumber(text, i, n) ==
  IF IsDigit(At(text, i))
    THEN ParseNumber(text, i + 1, 10 * n + DigitValue(At(text, i)))
    ELSE [value |-> JSNumber(n), next |-> i]

RECURSIVE ParseValue(_, _)
RECURSIVE ParseElements(_, _, _)
RECURSIVE ParseMembers(_, _, _)
ParseValue(text, i) ==
  LET c == At(text, i)
  IN  IF c = "\"" THEN ParseString(text, i + 1, <<>>)
      ELSE IF IsDigit(c) THEN ParseNumber(text, i, 0)
      ELSE IF c = "["
        THEN IF At(text, i + 1) = "]"
               THEN [value |-> JSArray(<<>>), next |-> i + 2]
               ELSE ParseElements(text, i + 1, <<>>)
      ELSE IF c = "{"
        THEN IF At(text, i + 1) = "}"
               THEN [value |-> JSObject(<<>>), next |-> i + 2]
               ELSE ParseMembers(text, i + 1, <<>>)
      ELSE Failed

ParseElements(text, i, items) ==
  LET item == ParseValue(text, i)
      c == At(text, item.next)
  IN  IF item.value.t = "error" THEN Failed
      ELSE IF c = "," THEN ParseElements(text, item.next + 1, Append(items, item.value))
      ELSE IF c = "]"
        THEN [value |-> JSArray(Append(items, item.value)), next |-> item.next + 1]
      ELSE Failed

ParseMembers(text, i, members) ==
  LET key == IF At(text, i) = "\"" THEN ParseString(text, i + 1, <<>>) ELSE Failed
      value == IF key.value.t # "error" /\ At(text, key.next) = ":"
                 THEN ParseValue(text, key.next + 1)
                 ELSE Failed
      member == Member(key.value.v, value.value)
      c == At(text, value.next)
  IN  IF value.value.t = "error" THEN Failed
      ELSE IF c = "," THEN ParseMembers(text, value.next + 1, Append(members, member))
      ELSE IF c = "}"
        THEN [value |-> JSObject(Append(members, member)), next |-> value.next + 1]
      ELSE Failed

JSONParse(text) ==
  LET read == ParseValue(text, 1)
  IN  IF read.value.t # "error" /\ read.next = Len(text) + 1
        THEN read.value
        ELSE SyntaxError

generateJSONReport(a) == JSONStringify(AuditValue(a))

(***************************************************************************)
(* selfCheck (src/index.ts): the audit of the project's own lists, and     *)
(* what it logs.                                                           *)
(***************************************************************************)
requiredFiles ==
  << README_MD, LICENSE_TXT, SECURITY_MD, CONTRIBUTING_MD, CODE_OF_CONDUCT_MD,
     MAINTAINERS_MD, CHANGELOG_MD, WELL_KNOWN_SECURITY_TXT, WELL_KNOWN_AI_TXT,
     WELL_KNOWN_HUMANS_TXT >>

requiredDirs == << SRC_DIR, TESTS_DIR, DOCS_DIR, WELL_KNOWN_DIR >>

selfCheck ==
  LET result == auditRepository(requiredDirs, requiredFiles)
  IN  [overallScore |-> result.overallScore,
       level        |-> result.level,
       compliant    |-> result.level \in {"bronze", "silver", "gold", "rhodium"}]

(***************************************************************************)
(* Callers' inputs: how a caller may write the lists it passes.            *)
(***************************************************************************)
Slashes(n) == [i \in 1..n |-> "/"]

ApplyCase(s, case) ==
  CASE case = "exact"   -> s
    [] case = "lower"   -> toLowerCase(s)
    [] case = "upper"   -> toUpperCase(s)
    [] case = "capital" -> IF s = <<>> THEN s ELSE <<toUpperChar(Head(s))>> \o Tail(s)

WithBackslashes(s) == [i \in 1..Len(s) |-> IF s[i] = "/" THEN "\\" ELSE s[i]]

PathStyles == [case : {"exact", "upper", "capital"}, slashes : 0..MaxTrailingSlashes]

\* Files are written in three cases, with forward or backward slashes, or
\* (in the registry's case) with trailing slashes as if they were directories.
FileStyles ==
  [case : {"exact", "lower", "upper"}, backslash : BOOLEAN, slashes : {0}]
    \cup [case : {"exact"}, backslash : {FALSE}, slashes : 1..MaxTrailingSlashes]

RegistryForm == [case |-> "exact", slashes |-> 1]

ExactForm == [case |-> "exact", backslash |-> FALSE, slashes |-> 0]

WritePath(path, style) ==
  ApplyCase(StripTrailingSlashes(path), style.case) \o Slashes(style.slashes)

WriteFile(path, style) ==
  LET cased == ApplyCase(path, style.case)
  IN  (IF style.backslash THEN WithBackslashes(cased) ELSE cased)
        \o Slashes(style.slashes)

DirectoryPool == MapPath(STANDARD_DIRECTORIES)

FilePool == MapPath(STANDARD_FILES) \o <<LICENSE_MD, WELL_KNOWN_AI_TXT>>

\* The members of chosen, in pool order, each written in the given style.
PathList(chosen, style) ==
  LET kept == SelectSeq(DirectoryPool, LAMBDA p : p \in chosen)
  IN  [i \in 1..Len(kept) |-> WritePath(kept[i], style)]

FileList(chosen, style) ==
  LET kept == SelectSeq(FilePool, LAMBDA p : p \in chosen)
  IN  [i \in 1..Len(kept) |-> WriteFile(kept[i], style)]

Range(seq) == {seq[i] : i \in 1..Len(seq)}

\* The list of the test 'should handle mixed case paths': 'SRC/', 'Tests/', 'DOCS/'.
MixedCasePaths ==
  << toUpperCase(SRC_DIR), ApplyCase(TESTS_DIR, "capital"), toUpperCase(DOCS_DIR) >>

PathInputs ==
  {PathList(chosen, style) \o extra :
     chosen \in SUBSET Range(DirectoryPool), style \in PathStyles,
     extra \in {<<>>, <<LIB_DIR>>}}
  \cup {MixedCasePaths, SubSeq(MixedCasePaths, 1, 2)}

\* '.WELL-KNOWN\security.txt': a Windows path with only its directory in
\* upper case.
BackslashedSecurityTxt ==
  WithBackslashes(
    toUpperCase(WELL_KNOWN_DIR)
      \o SubSeq(WELL_KNOWN_SECURITY_TXT, Len(WELL_KNOWN_DIR) + 1, Len(WELL_KNOWN_SECURITY_TXT)))

FileInputs ==
  {FileList(chosen, style) : chosen \in SUBSET Range(FilePool), style \in FileStyles}
  \cup {<<BackslashedSecurityTxt>>, <<README_MD, BackslashedSecurityTxt>>}

\* The lists the tests, the documentation and selfCheck pass to auditRepository.
AnchorPathLists ==
  { <<>>,
    <<SRC_DIR, TESTS_DIR>>,
    <<SRC_DIR, TESTS_DIR, DOCS_DIR, WELL_KNOWN_DIR>>,
    <<GITLAB_DIR, GITHUB_DIR>>,
    DirectoryPool }

AnchorFileLists ==
  { <<>>,
    <<README_MD, LICENSE_TXT, SECURITY_MD, CONTRIBUTING_MD, CODE_OF_CONDUCT_MD>>,
    <<README_MD, LICENSE, SECURITY_MD, CONTRIBUTING_MD, CODE_OF_CONDUCT_MD>>,
    <<README_MD, LICENSE_TXT, SECURITY_MD, CONTRIBUTING_MD, CODE_OF_CONDUCT_MD,
      CHANGELOG_MD>>,
    <<LICENSE_TXT, README_MD, CONTRIBUTING_MD, CODE_OF_CONDUCT_MD, SECURITY_MD,
      CHANGELOG_MD, MAINTAINERS_MD, WELL_KNOWN_SECURITY_TXT>>,
    <<LICENSE, README_MD, CONTRIBUTING_MD, CODE_OF_CONDUCT_MD, SECURITY_MD,
      CHANGELOG_MD, MAINTAINERS_MD, WELL_KNOWN_SECURITY_TXT>>,
    MapPath(STANDARD_FILES) }

\* auditRepository is called with every directory list against the anchor file
\* lists, and with every file list against the anchor directory lists.
AuditInputs ==
  ({PathList(chosen, RegistryForm) : chosen \in SUBSET Range(DirectoryPool)}
     \X AnchorFileLists)
  \cup
  (AnchorPathLists
     \X {FileList(chosen, ExactForm) : chosen \in SUBSET Range(FilePool)})

(***************************************************************************)
(* State machine: a caller holds two lists and calls the exported          *)
(* functions on them; each variable holds the last value returned.         *)
(***************************************************************************)
NoResult == [pending |-> TRUE]

NothingReturned ==
  /\ structure = NoResult
  /\ community = NoResult
  /\ compliant = NoResult
  /\ audit = NoResult
  /\ page = NoResult
  /\ state = NoResult
  /\ overall = NoResult
  /\ scores = NoResult
  /\ console = NoResult
  /\ parsed = NoResult
  /\ report = NoResult
  /\ recommendations = NoResult

InitStructure ==
  /\ existingPaths \in PathInputs
  /\ existingFiles = <<>>
  /\ NothingReturned

InitCommunity ==
  /\ existingPaths = <<>>
  /\ existingFiles \in FileInputs
  /\ NothingReturned

InitAudit ==
  /\ \E input \in AuditInputs :
       /\ existingPaths = input[1]
       /\ existingFiles = input[2]
  /\ NothingReturned

AnalyzeStructure ==
  /\ structure' = analyzeStructure(existingPaths)
  /\ UNCHANGED <<existingPaths, existingFiles, community, compliant, audit, recommendations, report, parsed, console, scores, overall, state, page>>

AnalyzeCommunityStandards ==
  /\ community' = analyzeCommunityStandards(existingFiles)
  /\ UNCHANGED <<existingPaths, existingFiles, structure, compliant, audit, recommendations, report, parsed, console, scores, overall, state, page>>

CheckRSRCompliance ==
  /\ community # NoResult
  /\ compliant' = [value |-> checkRSRCompliance(community)]
  /\ UNCHANGED <<existingPaths, existingFiles, structure, community, audit, recommendations, report, parsed, console, scores, overall, state, page>>

AuditRepository ==
  /\ audit' = auditRepository(existingPaths, existingFiles)
  /\ UNCHANGED <<existingPaths, existingFiles, structure, community, compliant, recommendations, report, parsed, console, scores, overall, state, page>>

NextStructure == AnalyzeStructure

NextCommunity == AnalyzeCommunityStandards \/ CheckRSRCompliance

NextAudit == AuditRepository

GetStructureRecommendations ==
  /\ structure # NoResult
  /\ recommendations' = [subject |-> "structure", lines |-> getStructureRecommendations(structure)]
  /\ UNCHANGED <<existingPaths, existingFiles, structure, community, compliant, audit, report, parsed, console, scores, overall, state, page>>

GetCommunityRecommendations ==
  /\ community # NoResult
  /\ recommendations' = [subject |-> "community", lines |-> getCommunityRecommendations(community)]
  /\ UNCHANGED <<existingPaths, existingFiles, structure, community, compliant, audit, report, parsed, console, scores, overall, state, page>>

GenerateJSONReport ==
  /\ audit # NoResult
  /\ report' = [text |-> generateJSONReport(audit)]
  /\ UNCHANGED <<existingPaths, existingFiles, structure, community, compliant, audit, recommendations, parsed, console, scores, overall, state, page>>

\* The caller's JSON.parse of the report.
ParseReport ==
  /\ report # NoResult
  /\ parsed' = [value |-> JSONParse(report.text)]
  /\ UNCHANGED <<existingPaths, existingFiles, structure, community, compliant, audit, recommendations, report, console, scores, overall, state, page>>

\* Reports are made of the audits of the lists of the tests and documents.
ReportInputs ==
  (AnchorPathLists \cup {<<SRC_DIR>>}) \X (AnchorFileLists \cup {<<README_MD>>})

InitReport ==
  /\ \E input \in ReportInputs :
       /\ existingPaths = input[1]
       /\ existingFiles = input[2]
  /\ NothingReturned

NextReport == AuditRepository \/ GenerateJSONReport \/ ParseReport

SelfCheck ==
  /\ console' = selfCheck
  /\ UNCHANGED <<existingPaths, existingFiles, structure, community, compliant, audit, recommendations, report, parsed, scores, overall, state, page>>

NextSelfCheck == AuditRepository \/ SelfCheck

CalculateOverallScore ==
  /\ scores # NoResult
  /\ overall' = [value |-> calculateOverallScore(scores.structure, scores.community)]
  /\ UNCHANGED <<existingPaths, existingFiles, structure, community, compliant, audit, recommendations, report, parsed, console, scores, state, page>>

\* Scores are computed for every list written as the registry writes it, and
\* the overall score for every pair of scores from 0 to 100.
InitRounding ==
  /\ \/ /\ existingPaths \in {PathList(chosen, RegistryForm) : chosen \in SUBSET Range(DirectoryPool)}
        /\ existingFiles = <<>>
        /\ scores = NoResult
     \/ /\ existingPaths = <<>>
        /\ existingFiles \in {FileList(chosen, ExactForm) : chosen \in SUBSET Range(FilePool)}
        /\ scores = NoResult
     \/ /\ existingPaths = <<>>
        /\ existingFiles = <<>>
        /\ scores \in [structure : 0..100, community : 0..100]
  /\ structure = NoResult
  /\ community = NoResult
  /\ compliant = NoResult
  /\ audit = NoResult
  /\ page = NoResult
  /\ state = NoResult
  /\ recommendations = NoResult
  /\ report = NoResult
  /\ parsed = NoResult
  /\ console = NoResult
  /\ overall = NoResult

NextRounding == AnalyzeStructure \/ AnalyzeCommunityStandards \/ CalculateOverallScore

\* The recommendation functions are called on the analysis of a list written
\* as the registry writes it: the lines depend on the rows matched only.
InitRecommendations ==
  /\ \/ /\ existingPaths \in {PathList(chosen, RegistryForm) : chosen \in SUBSET Range(DirectoryPool)}
        /\ existingFiles = <<>>
     \/ /\ existingPaths = <<>>
        /\ existingFiles \in {FileList(chosen, ExactForm) : chosen \in SUBSET Range(FilePool)}
                               \cup AnchorFileLists
  /\ NothingReturned

NextRecommendations ==
  \/ AnalyzeStructure
  \/ AnalyzeCommunityStandards
  \/ GetStructureRecommendations
  \/ GetCommunityRecommendations

\* Both analyzers, each on its own list: one of the lists varies, the other
\* is empty.
InitAnalyzers == InitStructure \/ InitCommunity

NextAnalyzers == AnalyzeStructure \/ AnalyzeCommunityStandards

SpecStructure == InitStructure /\ [][NextStructure]_vars

SpecCommunity == InitCommunity /\ [][NextCommunity]_vars

SpecAudit == InitAudit /\ [][NextAudit]_vars

SpecAnalyzers == InitAnalyzers /\ [][NextAnalyzers]_vars

SpecRecommendations == InitRecommendations /\ [][NextRecommendations]_vars

SpecReport == InitReport /\ [][NextReport]_vars

SpecSelfCheck == InitReport /\ [][NextSelfCheck]_vars

SpecRounding == InitRounding /\ [][NextRounding]_vars

(***************************************************************************)
(* The GrimPager engine: scroll events start page loads, and each started  *)
(* load resumes after its request has settled.  `state' is the engine's    *)
(* engineState; `page' is what the engine does to the browser: the         *)
(* requests issued and not yet settled, the number of requests issued, the *)
(* number of contents appended to the container, and the last console      *)
(* message.                                                                *)
(***************************************************************************)
\* Scroll positions of the window, in pixels.
MaxScrollY == 3

\* Page loads started in one run.
MaxLoads == 5

\* The ways a settled request continues: the new content is appended to the
\* container, the container is not found, or something throws (the request
\* rejects, there is no response to read, the new content is missing).
Outcomes == {"appended", "container not found", "threw"}

\* The next link: absent, present with an empty href, present with an href.
Links == {"none", "empty", "href"}

\* loadNextPage with the test of state.loading left out.
loadNextPage_Unguarded(s, p) ==
  [state |-> [s EXCEPT !.loading = TRUE],
   page  |-> [p EXCEPT !.requests = @ + 1, !.issued = @ + 1, !.log = "Loading"]]

\* loadNextPage, from the call to the await of the request.
loadNextPage(s, p) ==
  IF s.loading
    THEN [state |-> s, page |-> [p EXCEPT !.log = "Already loading..."]]
    ELSE [state |-> [s EXCEPT !.loading = TRUE],
          page  |-> [p EXCEPT !.requests = @ + 1, !.issued = @ + 1, !.log = "Loading"]]

\* loadNextPage, from the await of the request to the end.
loadNextPageResumed(s, p, outcome) ==
  CASE outcome = "appended" ->
         [state |-> [s EXCEPT !.pageNum = @ + 1, !.loading = FALSE],
          page  |-> [p EXCEPT !.requests = @ - 1, !.appended = @ + 1, !.log = "Page loaded"]]
    [] outcome = "container not found" ->
         [state |-> [s EXCEPT !.loading = FALSE],
          page  |-> [p EXCEPT !.requests = @ - 1, !.log = "Container not found"]]
    [] outcome = "threw" ->
         [state |-> [s EXCEPT !.loading = FALSE],
          page  |-> [p EXCEPT !.requests = @ - 1, !.log = "Load failed"]]

onScroll(s, p, scrollY, threshold, link) ==
  LET called == loadNextPage(s, p)
      after ==
        IF scrollY > threshold /\ scrollY > s.lastScrollY
          THEN CASE link = "href"  -> called
                 [] link = "empty" -> [state |-> s, page |-> [p EXCEPT !.log = ""]]
                 [] link = "none"  -> [state |-> s, page |-> [p EXCEPT !.log = "No next link found"]]
          ELSE [state |-> s, page |-> [p EXCEPT !.log = ""]]
  IN  [state |-> [after.state EXCEPT !.lastScrollY = scrollY], page |-> after.page]

\* The window fires a scroll event: at any position, whatever the height of
\* the document, whether or not the next link is there.
OnScroll ==
  /\ page.issued < MaxLoads
  /\ \E scrollY \in 0..MaxScrollY, threshold \in -1..MaxScrollY, link \in Links :
       LET after == onScroll(state, page, scrollY, threshold, link)
       IN  /\ state' = after.state
           /\ page' = after.page
  /\ UNCHANGED <<existingPaths, existingFiles, structure, community, compliant, audit, recommendations, report, parsed, console, scores, overall>>

\* A request issued by loadNextPage settles and the load resumes.
RequestSettles ==
  /\ page.requests > 0
  /\ \E outcome \in Outcomes :
       LET after == loadNextPageResumed(state, page, outcome)
       IN  /\ state' = after.state
           /\ page' = after.page
  /\ UNCHANGED <<existingPaths, existingFiles, structure, community, compliant, audit, recommendations, report, parsed, console, scores, overall>>

InitEngine ==
  /\ state = [loading |-> FALSE, pageNum |-> 1, lastScrollY |-> 0]
  /\ page = [requests |-> 0, issued |-> 0, appended |-> 0, log |-> ""]
  /\ existingPaths = <<>>
  /\ existingFiles = <<>>
  /\ structure = NoResult
  /\ community = NoResult
  /\ compliant = NoResult
  /\ audit = NoResult
  /\ recommendations = NoResult
  /\ report = NoResult
  /\ parsed = NoResult
  /\ console = NoResult
  /\ scores = NoResult
  /\ overall = NoResult

NextEngine == OnScroll \/ RequestSettles

SpecEngine == InitEngine /\ [][NextEngine]_vars

(***************************************************************************)
(* Vocabulary of the properties.                                           *)
(***************************************************************************)
Abs(n) == IF n < 0 THEN 0 - n ELSE n

\* The list names the file, compared case-insensitively.
Includes(files, name) ==
  \E i \in 1..Len(files) : toLowerCase(files[i]) = toLowerCase(name)

\* The license aliases a list supplies, in lower case.
SuppliedAliases(files) ==
  {alias \in {LICENSE, LICENSE_TXT, LICENSE_MD} : Includes(files, alias)}

\* The list without its license aliases.
NonLicense(files) ==
  SelectSeq(files, LAMBDA f : toLowerCase(f) \notin
                                {license_lc, license_txt_lc, license_md_lc})

NonLicenseRegistryFiles ==
  {STANDARD_FILES[i].path : i \in 1..Len(STANDARD_FILES)} \ {LICENSE, LICENSE_TXT}

\* The list names the directory in any case, with or without trailing slashes.
IncludesDir(paths, dir) ==
  \E i \in 1..Len(paths) :
    \E n \in 0..(MaxTrailingSlashes + 1) :
      toLowerCase(paths[i]) = toLowerCase(SubSeq(dir, 1, Len(dir) - 1)) \o Slashes(n)

RSRFilesSupplied(files) ==
  /\ Includes(files, README_MD)
  /\ Includes(files, SECURITY_MD)
  /\ Includes(files, CONTRIBUTING_MD)
  /\ Includes(files, CODE_OF_CONDUCT_MD)
  /\ Includes(files, LICENSE) \/ Includes(files, LICENSE_TXT)

PromotedLevels == {"bronze", "silver", "gold", "rhodium"}

(***************************************************************************)
(* Properties of the community analyzer (SpecCommunity).                   *)
(***************************************************************************)
\* C1: checkRSRCompliance(analyzeCommunityStandards(files)) is true exactly
\* when the files, compared case-insensitively, include README.md,
\* SECURITY.md, CONTRIBUTING.md, CODE_OF_CONDUCT.md and LICENSE or LICENSE.txt.
C1_ComplianceIffRSRFiles ==
  compliant # NoResult => (compliant.value <=> RSRFilesSupplied(existingFiles))

\* C2: a list whose only license alias is LICENSE.txt scores within 1 of the
\* same list with LICENSE in its place.
C2_LicenseTxtScoresLikeLicense ==
  (community # NoResult /\ SuppliedAliases(existingFiles) = {LICENSE_TXT})
    => Abs(community.score
           - analyzeCommunityStandards(NonLicense(existingFiles) \o <<LICENSE>>).score) <= 1

\* C3: a list that supplies several license aliases at once scores the same
\* as the list with the single alias LICENSE in their place: the license
\* weight is earned once, not zero times and not twice.
C3_LicenseCountedOnce ==
  (community # NoResult /\ Cardinality(SuppliedAliases(existingFiles)) >= 2)
    => community.score
         = analyzeCommunityStandards(NonLicense(existingFiles) \o <<LICENSE>>).score

\* C4: a list whose only license alias is LICENSE.md scores the same as the
\* list with LICENSE in its place.
C4_LicenseMdScoresLikeLicense ==
  (community # NoResult /\ SuppliedAliases(existingFiles) = {LICENSE_MD})
    => community.score
         = analyzeCommunityStandards(NonLicense(existingFiles) \o <<LICENSE>>).score

\* C9: a list with every non-license registry file and LICENSE or LICENSE.txt
\* (any case) scores 100.
C9_AllFilesScore100 ==
  ( /\ community # NoResult
    /\ \A name \in NonLicenseRegistryFiles : Includes(existingFiles, name)
    /\ Includes(existingFiles, LICENSE) \/ Includes(existingFiles, LICENSE_TXT) )
    => community.score = 100

(***************************************************************************)
(* Properties of the structure analyzer (SpecStructure).                   *)
(***************************************************************************)
\* C10: when the list names all 8 registry directories (any case, trailing
\* slashes optional), analyzeStructure returns score 100 and no missing
\* directory.
C10_AllDirsScore100 ==
  ( /\ structure # NoResult
    /\ \A i \in 1..Len(STANDARD_DIRECTORIES) :
         IncludesDir(existingPaths, STANDARD_DIRECTORIES[i].path) )
    => (structure.score = 100 /\ structure.missingDirs = <<>>)

\* C10 witness: all 8 directories written in upper case with two trailing
\* slashes, analyzed.
C10_Witness ==
  /\ structure # NoResult
  /\ Len(existingPaths) >= Len(STANDARD_DIRECTORIES)
  /\ \A i \in 1..Len(STANDARD_DIRECTORIES) :
       \E j \in 1..Len(existingPaths) :
         existingPaths[j] =
           toUpperCase(STANDARD_DIRECTORIES[i].path) \o <<"/">>
  /\ structure.score = 100

(***************************************************************************)
(* Properties of the audit aggregator (SpecAudit).                         *)
(***************************************************************************)
\* C5: the level is the first matching row of the table: rhodium from 95,
\* gold from 85, silver from 75, bronze from 60, each only when the community
\* result is RSR-compliant, raw otherwise; so no level above raw is returned
\* without RSR compliance.
C5_LevelByFirstMatchingRow ==
  audit # NoResult =>
    LET rsr == checkRSRCompliance(audit.community)
        s == audit.overallScore
    IN  /\ audit.level = "rhodium" <=> (rsr /\ s >= 95)
        /\ audit.level = "gold"    <=> (rsr /\ s >= 85 /\ s < 95)
        /\ audit.level = "silver"  <=> (rsr /\ s >= 75 /\ s < 85)
        /\ audit.level = "bronze"  <=> (rsr /\ s >= 60 /\ s < 75)
        /\ audit.level = "raw"     <=> (~rsr \/ s < 60)
        /\ audit.level \in PromotedLevels => rsr

\* C5 witness: a compliant audit that matches the gold row and not the
\* rhodium row.
C5_Witness ==
  /\ audit # NoResult
  /\ checkRSRCompliance(audit.community)
  /\ audit.overallScore >= 85
  /\ audit.overallScore < 95
  /\ audit.level = "gold"

\* C6: overallScore is the integer nearest to 0.4 * structure.score +
\* 0.6 * community.score (a half rounds up), over the two analyzers' results
\* for the same input.
C6_OverallScoreIsWeightedRound ==
  audit # NoResult =>
    LET tenfold == 4 * audit.structure.score + 6 * audit.community.score
    IN  /\ audit.structure = analyzeStructure(existingPaths)
        /\ audit.community = analyzeCommunityStandards(existingFiles)
        /\ 10 * audit.overallScore - 5 <= tenfold
        /\ tenfold < 10 * audit.overallScore + 5

\* C6 witness: an audit whose two scores differ and whose weighted sum is not
\* an integer.
C6_Witness ==
  /\ audit # NoResult
  /\ audit.structure.score # audit.community.score
  /\ (4 * audit.structure.score + 6 * audit.community.score) % 10 # 0

\* C7: the audits of [src/, tests/] with the five RSR files (license as
\* LICENSE.txt), and of the test input that adds docs/, .well-known/ and
\* CHANGELOG.md, return overallScore >= 60 and a level above raw.
C7_CompliantExampleIsPromoted ==
  ( /\ audit # NoResult
    /\ \/ /\ existingPaths = <<SRC_DIR, TESTS_DIR>>
          /\ Range(existingFiles) =
               {README_MD, LICENSE_TXT, SECURITY_MD, CONTRIBUTING_MD, CODE_OF_CONDUCT_MD}
       \/ /\ existingPaths = <<SRC_DIR, TESTS_DIR, DOCS_DIR, WELL_KNOWN_DIR>>
          /\ Range(existingFiles) =
               {README_MD, LICENSE_TXT, SECURITY_MD, CONTRIBUTING_MD, CODE_OF_CONDUCT_MD,
                CHANGELOG_MD} )
    => (audit.overallScore >= 60 /\ audit.level \in PromotedLevels)

\* C8: with all 8 registry directories and all registry files (all 9, or the
\* 8 with the license as LICENSE.txt), the audit returns overallScore >= 85 and
\* level gold or rhodium.
C8_FullRegistriesReachGold ==
  ( /\ audit # NoResult
    /\ existingPaths = DirectoryPool
    /\ \/ Range(existingFiles) = Range(MapPath(STANDARD_FILES))
       \/ Range(existingFiles) = Range(MapPath(STANDARD_FILES)) \ {LICENSE} )
    => (audit.overallScore >= 85 /\ audit.level \in {"gold", "rhodium"})

(***************************************************************************)
(* Claims about the empty audit.                                           *)
(***************************************************************************)
\* C11: auditRepository([], []) has overallScore 0, level raw and at least
\* one recommendation; each analyzer's part has score 0, an empty present
\* list and the whole registry, row by row, as missing.
C11_EmptyInputs ==
  (audit # NoResult /\ existingPaths = <<>> /\ existingFiles = <<>>) =>
    /\ audit.overallScore = 0
    /\ audit.level = "raw"
    /\ Len(audit.recommendations) > 0
    /\ audit.structure.score = 0
    /\ audit.structure.presentDirs = <<>>
    /\ audit.structure.missingDirs = STANDARD_DIRECTORIES
    /\ audit.community.score = 0
    /\ audit.community.presentFiles = <<>>
    /\ audit.community.missingFiles = STANDARD_FILES

\* C11 witness: the audit of the empty pair has returned.
C11_Witness ==
  audit # NoResult /\ existingPaths = <<>> /\ existingFiles = <<>>

(***************************************************************************)
(* Claims about both analyzers.                                            *)
(***************************************************************************)
\* The required and recommended rows of a registry.
Weighty(registry) ==
  SelectSeq(registry, LAMBDA item : item.priority \in {"required", "recommended"})

\* C12: appending to the analysed list the path of a required or recommended
\* registry row that the list does not contain (in any case) gives a score
\* that is not lower, for analyzeStructure and for analyzeCommunityStandards.
C12_AddingItemNeverLowersScore ==
  /\ structure # NoResult =>
       \A i \in 1..Len(Weighty(STANDARD_DIRECTORIES)) :
         LET dir == Weighty(STANDARD_DIRECTORIES)[i]
         IN  ~IncludesDir(existingPaths, dir.path) =>
               analyzeStructure(Append(existingPaths, dir.path)).score >= structure.score
  /\ community # NoResult =>
       \A i \in 1..Len(Weighty(STANDARD_FILES)) :
         LET file == Weighty(STANDARD_FILES)[i]
         IN  ~Includes(existingFiles, file.path) =>
               analyzeCommunityStandards(Append(existingFiles, file.path)).score
                 >= community.score

(***************************************************************************)
(* Claims about the structure score.                                       *)
(***************************************************************************)
\* How many rows of a registry have the priority.
CountOf(registry, priority) ==
  Len(SelectSeq(registry, LAMBDA item : item.priority = priority))

\* The weights as stated: required 10, recommended 5, optional 1.
StatedWeight(priority) ==
  IF priority = "required" THEN 10 ELSE IF priority = "recommended" THEN 5 ELSE 1

\* The stated weights of the directory rows reported present.
EarnedByDirs(present) ==
  SumSeq([i \in 1..Len(STANDARD_DIRECTORIES) |->
            IF \E j \in 1..Len(present) : present[j] = STANDARD_DIRECTORIES[i].path
              THEN StatedWeight(STANDARD_DIRECTORIES[i].priority)
              ELSE 0])

\* C13 as stated: the registry has 2 required, 3 recommended and 3 optional
\* directories, the score is round(100 * earned / 38), [src/, tests/] scores
\* 53 and [.gitlab/, .github/] scores 5.
C13_Max38 ==
  structure # NoResult =>
    /\ CountOf(STANDARD_DIRECTORIES, "required") = 2
    /\ CountOf(STANDARD_DIRECTORIES, "recommended") = 3
    /\ CountOf(STANDARD_DIRECTORIES, "optional") = 3
    /\ structure.score = MathRound(100 * EarnedByDirs(structure.presentDirs), 38)
    /\ existingPaths = <<SRC_DIR, TESTS_DIR>> => structure.score = 53
    /\ existingPaths = <<GITLAB_DIR, GITHUB_DIR>> => structure.score = 5

\* C13: the registry has 2 required, 4 recommended and 2 optional
\* directories, the score is round(100 * earned / 42), [src/, tests/] scores
\* 48 and [.gitlab/, .github/] scores 5.
C13_Max42 ==
  structure # NoResult =>
    /\ CountOf(STANDARD_DIRECTORIES, "required") = 2
    /\ CountOf(STANDARD_DIRECTORIES, "recommended") = 4
    /\ CountOf(STANDARD_DIRECTORIES, "optional") = 2
    /\ structure.score = MathRound(100 * EarnedByDirs(structure.presentDirs), 42)
    /\ existingPaths = <<SRC_DIR, TESTS_DIR>> => structure.score = 48
    /\ existingPaths = <<GITLAB_DIR, GITHUB_DIR>> => structure.score = 5

\* C13 witness: the analysis of [src/, tests/] has returned 48.
C13_Witness ==
  /\ structure # NoResult
  /\ existingPaths = <<SRC_DIR, TESTS_DIR>>
  /\ structure.score = 48

\* The lists of k different directories of the priority, as the registry
\* writes them.
ListsOf(priority, k) ==
  LET rows == SelectSeq(STANDARD_DIRECTORIES, LAMBDA dir : dir.priority = priority)
  IN  {list \in [1..k -> Range(MapPath(rows))] :
         \A i, j \in 1..k : list[i] = list[j] => i = j}

\* The analysed list matches exactly k directories, all of the priority.
MatchesOnly(priority, k) ==
  /\ structure # NoResult
  /\ Len(structure.presentDirs) = k
  /\ structure.presentDirs \in ListsOf(priority, k)

\* C14: the weights are 10, 5 and 1, and a list that matches only k required
\* directories scores strictly higher than any list of k optional
\* directories, for k = 1 and k = 2.
C14_RequiredOutweighsOptional ==
  /\ getPriorityWeight("required") = 10
  /\ getPriorityWeight("recommended") = 5
  /\ getPriorityWeight("optional") = 1
  /\ \A k \in {1, 2} :
       MatchesOnly("required", k) =>
         \A optional \in ListsOf("optional", k) :
           structure.score > analyzeStructure(optional).score

\* C14 witness: a list that matches src/ and tests/ only has been analysed,
\* and the list of the two optional directories scores above 0.
C14_Witness ==
  /\ MatchesOnly("required", 2)
  /\ analyzeStructure(<<GITLAB_DIR, GITHUB_DIR>>).score > 0

(***************************************************************************)
(* Claims about the normalisation of directory paths.                      *)
(***************************************************************************)
\* The ways to rewrite a path: in lower case, in upper case or capitalised,
\* ending with any number of slashes.
Rewrites ==
  [case : {"lower", "upper", "capital"}, slashes : 0..MaxTrailingSlashes]

\* The list with its first k paths rewritten.
Rewritten(paths, k, style) ==
  [i \in 1..Len(paths) |-> IF i <= k THEN WritePath(paths[i], style) ELSE paths[i]]

\* C15: rewriting the first path of the analysed list, or all its paths, in
\* another case and with other trailing slashes gives the same missingDirs
\* and the same score; ['SRC/', 'Tests/'] has src/ and tests/ present.
C15_CaseAndSlashInsensitive ==
  structure # NoResult =>
    /\ \A style \in Rewrites : \A k \in {1, Len(existingPaths)} :
         LET other == analyzeStructure(Rewritten(existingPaths, k, style))
         IN  /\ other.missingDirs = structure.missingDirs
             /\ other.score = structure.score
    /\ existingPaths = SubSeq(MixedCasePaths, 1, 2) =>
         structure.presentDirs = <<SRC_DIR, TESTS_DIR>>

\* C15 witness: ['SRC/', 'Tests/'] has been analysed and two directories are
\* present.
C15_Witness ==
  /\ structure # NoResult
  /\ existingPaths = SubSeq(MixedCasePaths, 1, 2)
  /\ Len(structure.presentDirs) = 2

(***************************************************************************)
(* Claims about the present lists.                                         *)
(***************************************************************************)
\* Some file of the list is the name once lowercased and written with
\* forward slashes.
Matches(files, name) ==
  \E i \in 1..Len(files) :
    [k \in 1..Len(files[i]) |->
       IF files[i][k] = "\\" THEN "/" ELSE toLowerChar(files[i][k])] = toLowerCase(name)

\* C16 as stated: every entry of presentDirs and of presentFiles is an
\* element of the analysed list, exactly as the caller wrote it.
C16_PresentHoldsCallerStrings ==
  /\ structure # NoResult =>
       \A i \in 1..Len(structure.presentDirs) :
         structure.presentDirs[i] \in Range(existingPaths)
  /\ community # NoResult =>
       \A i \in 1..Len(community.presentFiles) :
         community.presentFiles[i] \in Range(existingFiles)

\* C16: every entry of presentDirs and of presentFiles is the path, as the
\* registry writes it, of a row that some element of the analysed list
\* matches after normalisation; for ['SRC'] the entry is 'src/'.
C16_PresentHoldsRegistryPaths ==
  /\ structure # NoResult =>
       /\ \A i \in 1..Len(structure.presentDirs) :
            /\ structure.presentDirs[i] \in Range(MapPath(STANDARD_DIRECTORIES))
            /\ IncludesDir(existingPaths, structure.presentDirs[i])
       /\ existingPaths = <<toUpperCase(StripTrailingSlashes(SRC_DIR))>> =>
            structure.presentDirs = <<SRC_DIR>>
  /\ community # NoResult =>
       \A i \in 1..Len(community.presentFiles) :
         /\ community.presentFiles[i] \in Range(MapPath(STANDARD_FILES))
         /\ Matches(existingFiles, community.presentFiles[i])

\* C16 witness: ['SRC'] has been analysed and presentDirs is ['src/'].
C16_Witness ==
  /\ structure # NoResult
  /\ existingPaths = <<toUpperCase(StripTrailingSlashes(SRC_DIR))>>
  /\ structure.presentDirs = <<SRC_DIR>>

(***************************************************************************)
(* Claims about the analyzers as functions of a set.                       *)
(***************************************************************************)
Reverse(seq) == [i \in 1..Len(seq) |-> seq[Len(seq) + 1 - i]]

\* The list with its last element repeated in front.
WithRepeat(seq) == IF seq = <<>> THEN seq ELSE <<seq[Len(seq)]>> \o seq

\* C17: analysing the list in reverse order, or the list with one of its
\* elements repeated, gives the same missing list, the same present list and
\* the same score as the analysis of the list itself, for both analyzers.
C17_FunctionOfInputSet ==
  /\ structure # NoResult =>
       /\ analyzeStructure(Reverse(existingPaths)) = structure
       /\ analyzeStructure(WithRepeat(existingPaths)) = structure
  /\ community # NoResult =>
       /\ analyzeCommunityStandards(Reverse(existingFiles)) = community
       /\ analyzeCommunityStandards(WithRepeat(existingFiles)) = community

\* C17 witness: a list of at least two different directories, and no file,
\* has been analysed by both analyzers, with at least one directory present.
C17_Witness ==
  /\ structure # NoResult
  /\ community # NoResult
  /\ Len(existingPaths) >= 2
  /\ Reverse(existingPaths) # existingPaths
  /\ structure.presentDirs # <<>>

(***************************************************************************)
(* Claims about the license rows.                                          *)
(***************************************************************************)
\* The paths of the rows reported missing.
MissingPaths(standards) == Range(MapPath(standards.missingFiles))

\* C18: when the analysed list has LICENSE.txt (in any case) and not LICENSE,
\* neither license row is in missingFiles and presentFiles has LICENSE or
\* LICENSE.txt.
C18_LicenseTxtSatisfiesLicense ==
  (/\ community # NoResult
   /\ Includes(existingFiles, LICENSE_TXT)
   /\ ~Includes(existingFiles, LICENSE)) =>
    /\ LICENSE \notin MissingPaths(community)
    /\ LICENSE_TXT \notin MissingPaths(community)
    /\ \E i \in 1..Len(community.presentFiles) :
         community.presentFiles[i] \in {LICENSE, LICENSE_TXT}

\* The stated weights of the file rows reported present.
EarnedByFiles(present) ==
  SumSeq([i \in 1..Len(STANDARD_FILES) |->
            IF \E j \in 1..Len(present) : present[j] = STANDARD_FILES[i].path
              THEN StatedWeight(STANDARD_FILES[i].priority)
              ELSE 0])

\* C19: the maximum is 46 whatever the list, so that the score is
\* round(100 * earned / 46) with the license pair worth one weight of 10;
\* when the list has no license alias both license rows are in missingFiles,
\* and a list of exactly the seven non-license registry files scores
\* round(100 * 36 / 46).
C19_NoAliasBothRowsMissingOneWeight ==
  community # NoResult =>
    /\ MaxPointsFrom(1, {}, 0) = 46
    /\ community.score = MathRound(100 * EarnedByFiles(community.presentFiles), 46)
    /\ SuppliedAliases(existingFiles) = {} =>
         /\ LICENSE \in MissingPaths(community)
         /\ LICENSE_TXT \in MissingPaths(community)
         /\ (/\ Len(existingFiles) = Cardinality(NonLicenseRegistryFiles)
             /\ \A name \in NonLicenseRegistryFiles : Matches(existingFiles, name)) =>
              community.score = MathRound(100 * 36, 46)

\* C19 witness: the seven non-license registry files, written as the
\* registry writes them, have been analysed with both license rows missing.
C19_Witness ==
  /\ community # NoResult
  /\ Range(existingFiles) = NonLicenseRegistryFiles
  /\ {LICENSE, LICENSE_TXT} \subseteq MissingPaths(community)
  /\ Len(community.presentFiles) = 7

(***************************************************************************)
(* Claims about the normalisation of file paths.                           *)
(***************************************************************************)
\* The paths of the rows reported present.
PresentPaths(standards) == Range(standards.presentFiles)

\* C20: a registry row is reported present only if some file of the list,
\* lowercased and with every backslash turned into a slash but with its
\* trailing slashes kept, is the row's path lowercased, and a non-license
\* row is then always reported present; '.WELL-KNOWN\security.txt' makes the
\* .well-known/security.txt row present, 'README.md/' leaves the README.md
\* row missing.
C20_FilesMatchLowercasedSlashed ==
  community # NoResult =>
    /\ \A i \in 1..Len(STANDARD_FILES) :
         LET path == STANDARD_FILES[i].path
         IN  /\ path \in PresentPaths(community) => Matches(existingFiles, path)
             /\ path \in NonLicenseRegistryFiles =>
                  /\ Matches(existingFiles, path) => path \in PresentPaths(community)
                  /\ path \in PresentPaths(community) \/ path \in MissingPaths(community)
    /\ BackslashedSecurityTxt \in Range(existingFiles) =>
         WELL_KNOWN_SECURITY_TXT \in PresentPaths(community)
    /\ (README_MD \o <<"/">>) \in Range(existingFiles) =>
         README_MD \in MissingPaths(community)

\* C20 witness: ['.WELL-KNOWN\security.txt'] has been analysed and the
\* .well-known/security.txt row is the one row present.
C20_Witness ==
  /\ community # NoResult
  /\ existingFiles = <<BackslashedSecurityTxt>>
  /\ community.presentFiles = <<WELL_KNOWN_SECURITY_TXT>>

(***************************************************************************)
(* Claims about the recommendations.                                       *)
(***************************************************************************)
\* String.prototype.includes: the word is a run of consecutive characters of
\* the text.
includes(text, word) ==
  \E k \in 0..(Len(text) - Len(word)) : SubSeq(text, k + 1, k + Len(word)) = word

Required == <<"R","e","q","u","i","r","e","d">>

Recommended == <<"R","e","c","o","m","m","e","n","d","e","d">>

\* The missing list the recommendations were computed from.
MissingOfSubject ==
  IF recommendations.subject = "structure" THEN structure.missingDirs
  ELSE community.missingFiles

\* C21: the lines are, in the order of the missing list, one line per missing
\* required item (it has 'Required' and the item's path) and one per missing
\* recommended item (it has 'Recommended' and the item's path), none for an
\* optional item, and then one summary line, which is neither; so the length
\* is the number of missing required and recommended items plus 1.
C21_OneLinePerWeightyItemPlusSummary ==
  recommendations # NoResult =>
    LET lines == recommendations.lines
        wanted == Weighty(MissingOfSubject)
    IN  /\ Len(lines) = Len(wanted) + 1
        /\ \A i \in 1..Len(wanted) :
             /\ includes(lines[i], wanted[i].path)
             /\ includes(lines[i], Required) <=> wanted[i].priority = "required"
             /\ includes(lines[i], Recommended) <=> wanted[i].priority = "recommended"
        /\ ~includes(lines[Len(lines)], Required)
        /\ ~includes(lines[Len(lines)], Recommended)

\* C21 witness: recommendations were made for a list with a required, a
\* recommended and an optional item missing.
C21_Witness ==
  /\ recommendations # NoResult
  /\ \A priority \in {"required", "recommended", "optional"} :
       CountOf(MissingOfSubject, priority) > 0
  /\ Len(recommendations.lines) > 2

\* The score the recommendations were computed from.
ScoreOfSubject ==
  IF recommendations.subject = "structure" THEN structure.score ELSE community.score

\* The last line of the recommendations.
Summary == recommendations.lines[Len(recommendations.lines)]

COMPLETE_EXCLAIMED == <<"c","o","m","p","l","e","t","e","!">>

MOSTLY_COMPLETE == <<"m","o","s","t","l","y"," ","c","o","m","p","l","e","t","e">>

IMPROVEMENT == <<" ","i","m","p","r","o","v","e","m","e","n","t">>

INCOMPLETE == <<"i","n","c","o","m","p","l","e","t","e">>

\* C22: the summary line says 'complete!' exactly when the score is 100,
\* 'mostly complete' exactly when it is 80..99, 'need(s) improvement' exactly
\* when it is 60..79 and 'incomplete' exactly when it is below 60.
C22_SummaryByScoreBracket ==
  recommendations # NoResult =>
    /\ includes(Summary, COMPLETE_EXCLAIMED) <=> ScoreOfSubject = 100
    /\ includes(Summary, MOSTLY_COMPLETE) <=> (80 <= ScoreOfSubject /\ ScoreOfSubject < 100)
    /\ includes(Summary, IMPROVEMENT) <=> (60 <= ScoreOfSubject /\ ScoreOfSubject < 80)
    /\ includes(Summary, INCOMPLETE) <=> ScoreOfSubject < 60

\* C22 witness: recommendations were made at the cut point 60 and the summary
\* speaks of improvement.
C22_Witness ==
  /\ recommendations # NoResult
  /\ ScoreOfSubject = 60
  /\ includes(Summary, IMPROVEMENT)

COMPLETE == <<"c","o","m","p","l","e","t","e">>

\* Some line of the recommendations includes the word 'complete'.
PraisesCompletion ==
  \E i \in 1..Len(recommendations.lines) : includes(recommendations.lines[i], COMPLETE)

\* The list supplies every non-license registry file and LICENSE.txt, and not
\* LICENSE.
EveryFileWithLicenseTxt ==
  /\ \A name \in NonLicenseRegistryFiles : Includes(existingFiles, name)
  /\ Includes(existingFiles, LICENSE_TXT)
  /\ ~Includes(existingFiles, LICENSE)

\* C23: the community recommendations for a list with every registry file,
\* the license as LICENSE.txt, have a line that includes 'complete', and so
\* have the structure recommendations for a list with all 8 directories.
C23_CompleteInputsArePraised ==
  recommendations # NoResult =>
    /\ (recommendations.subject = "community" /\ EveryFileWithLicenseTxt) =>
         PraisesCompletion
    /\ (/\ recommendations.subject = "structure"
        /\ \A i \in 1..Len(DirectoryPool) : IncludesDir(existingPaths, DirectoryPool[i])) =>
         PraisesCompletion

(***************************************************************************)
(* Claims about the range of the scores.                                   *)
(***************************************************************************)
\* C24: the structure score, the community score and the overallScore of an
\* audit are integers from 0 to 100.
C24_ScoresWithin0And100 ==
  audit # NoResult =>
    /\ audit.structure.score \in 0..100
    /\ audit.community.score \in 0..100
    /\ audit.overallScore \in 0..100

\* C24 witness: an audit has returned with all three scores at 100.
C24_Witness ==
  /\ audit # NoResult
  /\ audit.structure.score = 100
  /\ audit.community.score = 100
  /\ audit.overallScore = 100

(***************************************************************************)
(* Claims about the JSON report.                                           *)
(***************************************************************************)
\* The object has a member of the name.
Has(object, key) == \E i \in 1..Len(object.v) : object.v[i].key = key

\* The value of the member of the name.
Get(object, key) == object.v[CHOOSE i \in 1..Len(object.v) : object.v[i].key = key].value

AuditResultKeys ==
  {KEY_STRUCTURE, KEY_COMMUNITY, KEY_OVERALL_SCORE, KEY_LEVEL, KEY_RECOMMENDATIONS}

\* C25: JSON.parse of generateJSONReport(a) is an object whose structure,
\* community, overallScore, level and recommendations members equal those of
\* the audit result a.
C25_JSONReportIsLossless ==
  parsed # NoResult =>
    /\ parsed.value.t = "object"
    /\ \A key \in AuditResultKeys :
         /\ Has(parsed.value, key)
         /\ Get(parsed.value, key) = Get(AuditValue(audit), key)

\* C25 witness: a report was parsed whose audit misses src/, a row with a
\* template of several lines, and has at least two recommendations.
C25_Witness ==
  /\ parsed # NoResult
  /\ \E i \in 1..Len(audit.structure.missingDirs) :
       audit.structure.missingDirs[i].path = SRC_DIR
  /\ Len(audit.recommendations) >= 2
  /\ parsed.value.t = "object"

(***************************************************************************)
(* Claims about selfCheck.                                                 *)
(***************************************************************************)
\* C26: selfCheck finds a level among bronze, silver, gold and rhodium and
\* logs that the repository is RSR-compliant.
C26_SelfCheckPasses ==
  console # NoResult =>
    /\ console.level \in PromotedLevels
    /\ console.compliant

(***************************************************************************)
(* Claims that relate the missing list, the score and the level.           *)
(***************************************************************************)
\* C27: missingDirs is empty exactly when the structure score is 100, and
\* missingFiles is empty exactly when the community score is 100.
C27_NothingMissingIffScore100 ==
  /\ structure # NoResult => (structure.missingDirs = <<>> <=> structure.score = 100)
  /\ community # NoResult => (community.missingFiles = <<>> <=> community.score = 100)

\* The levels in rising order.
LevelRank(level) ==
  CASE level = "raw"     -> 0
    [] level = "bronze"  -> 1
    [] level = "silver"  -> 2
    [] level = "gold"    -> 3
    [] level = "rhodium" -> 4

\* C28: with one more registry directory, or one more file of the pool, added
\* to the audited lists, compliance does not turn from true to false and the
\* level is not lower.
C28_AddingNeverDemotes ==
  audit # NoResult =>
    /\ \A x \in Range(DirectoryPool) \cup {LIB_DIR} :
         LevelRank(auditRepository(Append(existingPaths, x), existingFiles).level)
           >= LevelRank(audit.level)
    /\ \A x \in Range(FilePool) :
         /\ checkRSRCompliance(audit.community) =>
              checkRSRCompliance(analyzeCommunityStandards(Append(existingFiles, x)))
         /\ LevelRank(auditRepository(existingPaths, Append(existingFiles, x)).level)
              >= LevelRank(audit.level)

(***************************************************************************)
(* Claims about rounding.                                                  *)
(***************************************************************************)
\* n / d lies exactly half way between two integers (n >= 0, d > 0).
IsHalf(n, d) == (2 * n) % d = 0 /\ ((2 * n) \div d) % 2 = 1

\* n / d rounded to the nearest integer, a half going up (for n >= 0 that is
\* also away from zero).
RoundHalfUp(n, d) == IF (2 * (n % d)) >= d THEN (n \div d) + 1 ELSE n \div d

\* n / d rounded to the nearest integer, a half going to the even neighbour.
RoundHalfEven(n, d) ==
  IF IsHalf(n, d)
    THEN (IF (n \div d) % 2 = 0 THEN n \div d ELSE (n \div d) + 1)
    ELSE RoundHalfUp(n, d)

\* The exact value n / d is no half, and the computed score is n / d rounded,
\* under each of the rounding rules.
RoundsAlike(score, n, d) ==
  /\ ~IsHalf(n, d)
  /\ score = RoundHalfUp(n, d)
  /\ score = RoundHalfEven(n, d)

\* C29: 100 * earned / 42 of analyzeStructure, 100 * earned / 46 of
\* analyzeCommunityStandards, and 0.4 * s + 0.6 * c for all s, c in 0..100 are
\* never exactly half way between two integers, and each computed score is
\* that value rounded half up, half to even or half away from zero alike.
C29_NoScoreOnAHalf ==
  /\ structure # NoResult =>
       RoundsAlike(structure.score, 100 * EarnedByDirs(structure.presentDirs), 42)
  /\ community # NoResult =>
       RoundsAlike(community.score, 100 * EarnedByFiles(community.presentFiles), 46)
  /\ overall # NoResult =>
       RoundsAlike(overall.value, 4 * scores.structure + 6 * scores.community, 10)

\* C29 witness: the overall score of 99 and 100 was computed; its exact value
\* 99.6 is rounded up to 100.
C29_Witness ==
  /\ overall # NoResult
  /\ scores = [structure |-> 99, community |-> 100]
  /\ overall.value = 100

(***************************************************************************)
(* Claims about the GrimPager engine.                                      *)
(***************************************************************************)
\* In every state: at most one request is in flight, state.loading is true
\* exactly while one is, and state.pageNum counts the appended contents.
OneLoadInFlight ==
  /\ page.requests <= 1
  /\ state.loading <=> page.requests = 1
  /\ state.pageNum = 1 + page.appended

\* In every step: a call that finds state.loading true issues no request, a
\* load that finishes leaves state.loading false, and state.pageNum grows by
\* 1 when a content is appended and stays otherwise.
LoadsStepByStep ==
  /\ state.loading => page'.issued = page.issued
  /\ page'.log = "Already loading..." =>
       state.loading /\ page'.requests = page.requests /\ page'.issued = page.issued
  /\ page'.requests < page.requests => ~state'.loading
  /\ state'.pageNum = state.pageNum + (page'.appended - page.appended)
  /\ page'.appended - page.appended = (IF page'.log = "Page loaded" THEN 1 ELSE 0)

\* C30: for any interleaving of scroll events and settling requests at most
\* one page load is in flight; a loadNextPage call made while state.loading
\* is true issues no request; state.loading is false after every started load
\* finishes, whether it appended, found no container or threw; state.pageNum
\* grows by exactly 1 per appended content and never otherwise.
C30_AtMostOneLoadInFlight == []OneLoadInFlight /\ [][LoadsStepByStep]_vars

\* C30 witness: one load appended its content, one failed, a third is in
\* flight, and a scroll event that called loadNextPage meanwhile was refused.
C30_Witness ==
  /\ page.issued = 3
  /\ page.requests = 1
  /\ page.appended = 1
  /\ state.pageNum = 2
  /\ state.loading
  /\ page.log = "Already loading..."

====
